---------------------------- MODULE Spec2Model ----------------------------
(***************************************************************************)
(* scripts/get_build_info.py: the build-information injector.              *)
(*                                                                         *)
(* main() resolves a commit hash and a branch (two git queries, each with  *)
(* a fallback), takes a timestamp, reads PIOConfig.h, removes the block    *)
(* delimited by the two marker lines, finds the last #endif and writes the *)
(* file back with a fresh block in front of that #endif.                   *)
(*                                                                         *)
(* Text is a sequence of tokens.  A token is a run of characters that      *)
(* neither begins nor ends with white space, or one of the two white-space *)
(* tokens " " and "\n".  A Python str is such a sequence, the file on disk *)
(* is the flat sequence of its tokens, and a line is a text.               *)
(* Python indexes lists from 0, the model from 1; a Python index i is the  *)
(* model's i + 1 and Python's None is NoIndex.                             *)
(*                                                                         *)
(* The model covers the invocations in which PIOConfig.h exists and both   *)
(* open() calls succeed.                                                   *)
(***************************************************************************)
EXTENDS Naturals, Sequences, FiniteSets

(***************************************************************************)
(* Bounds of the model.                                                    *)
(***************************************************************************)
\* The longest PIOConfig.h, in lines, that a behaviour starts from.
MaxLines == 3
\* The number of builds (invocations of main) in one behaviour.
MaxRuns == 2

(***************************************************************************)
(* Literals of the script.                                                 *)
(***************************************************************************)
NL == "\n"
SP == " "
WhiteSpace == {SP, NL}

BEGIN_MARK == <<"// >>> AUTO-GENERATED BUILD INFO BEGIN">>
END_MARK == <<"// <<< AUTO-GENERATED BUILD INFO END">>
ENDIF == <<"#endif">>
DEV == <<"dev">>
UNKNOWN == <<"unknown">>
DETACHED == <<"detached">>
HEAD == <<"HEAD">>

\* Python's None, for start, end and insert_index.
NoIndex == 0

(***************************************************************************)
(* str.strip(): the text without its leading and trailing white space.     *)
(***************************************************************************)
RECURSIVE lstrip(_)
lstrip(t) ==
    IF t # <<>> /\ Head(t) \in WhiteSpace THEN lstrip(Tail(t)) ELSE t

RECURSIVE rstrip(_)
rstrip(t) ==
    IF t # <<>> /\ t[Len(t)] \in WhiteSpace
    THEN rstrip(SubSeq(t, 1, Len(t) - 1))
    ELSE t

strip(t) == rstrip(lstrip(t))

(***************************************************************************)
(* f.readlines() and f.writelines(): the file's text cut after every "\n", *)
(* and the lines written one after the other.                              *)
(***************************************************************************)
RECURSIVE SplitLines(_, _, _)
SplitLines(content, i, from) ==
    IF i > Len(content)
    THEN (IF from > Len(content) THEN <<>> ELSE <<SubSeq(content, from, Len(content))>>)
    ELSE IF content[i] = NL
         THEN <<SubSeq(content, from, i)>> \o SplitLines(content, i + 1, i + 1)
         ELSE SplitLines(content, i + 1, from)

readlines(content) == SplitLines(content, 1, 1)

RECURSIVE writelines(_)
writelines(ls) ==
    IF ls = <<>> THEN <<>> ELSE Head(ls) \o writelines(Tail(ls))

(***************************************************************************)
(* The generated block, lines 51-57, and insert_lines, line 83.            *)
(***************************************************************************)
Define(name, value) ==
    <<"#define", SP, name, SP, "\"">> \o value \o <<"\"">>

DefineLines(m) ==
    << Define("FIRMWARE_BUILD_NUMBER", m.commit_hash),
       Define("GIT_BRANCH", m.branch),
       Define("BUILD_TIMESTAMP_NUM", m.timestamp) >>

generated_block(m) ==
    <<BEGIN_MARK>> \o DefineLines(m) \o <<END_MARK>>

\* insert_lines, were the "\n" of line 83 forgotten.
insert_lines_unterminated(m) == generated_block(m)

insert_lines(m) ==
    LET block == generated_block(m)
    IN  [i \in 1..Len(block) |-> Append(block[i], NL)]

(***************************************************************************)
(* Lines 62-69: the scan for the markers.  start is overwritten by every   *)
(* begin-marker line met; the first end-marker line sets end and ends the  *)
(* scan.                                                                   *)
(***************************************************************************)
\* The scan, were start set by the first begin-marker line only.
RECURSIVE ScanFromFirstBegin(_, _, _)
ScanFromFirstBegin(ls, i, s) ==
    IF i > Len(ls) THEN [start |-> s, end |-> NoIndex]
    ELSE IF strip(ls[i]) = BEGIN_MARK
         THEN ScanFromFirstBegin(ls, i + 1, IF s = NoIndex THEN i ELSE s)
    ELSE IF strip(ls[i]) = END_MARK THEN [start |-> s, end |-> i]
    ELSE ScanFromFirstBegin(ls, i + 1, s)

\* The scan, were the break of line 69 missing: end is the last end-marker
\* line, and the begin-marker lines after the first end marker count too.
RECURSIVE ScanNoBreak(_, _, _, _)
ScanNoBreak(ls, i, s, e) ==
    IF i > Len(ls) THEN [start |-> s, end |-> e]
    ELSE IF strip(ls[i]) = BEGIN_MARK THEN ScanNoBreak(ls, i + 1, i, e)
    ELSE IF strip(ls[i]) = END_MARK THEN ScanNoBreak(ls, i + 1, s, i)
    ELSE ScanNoBreak(ls, i + 1, s, e)

ScanFromNoBreak(ls, i, s) == ScanNoBreak(ls, i, s, NoIndex)

RECURSIVE ScanFrom(_, _, _)
ScanFrom(ls, i, s) ==
    IF i > Len(ls) THEN [start |-> s, end |-> NoIndex]
    ELSE IF strip(ls[i]) = BEGIN_MARK THEN ScanFrom(ls, i + 1, i)
    ELSE IF strip(ls[i]) = END_MARK THEN [start |-> s, end |-> i]
    ELSE ScanFrom(ls, i + 1, s)

ScanMarkers(ls) == ScanFrom(ls, 1, NoIndex)

\* The removal, were it del lines[start:end]: the end marker stays.
RemoveBlockKeepsEnd(ls, s, e) ==
    IF s # NoIndex /\ e # NoIndex
    THEN SubSeq(ls, 1, s - 1) \o SubSeq(ls, e, Len(ls))
    ELSE ls

\* The removal, were a begin marker alone enough: without an end marker
\* everything from the begin marker on goes.
RemoveBlockFromBegin(ls, s, e) ==
    IF s # NoIndex
    THEN SubSeq(ls, 1, s - 1)
         \o (IF e # NoIndex THEN SubSeq(ls, e + 1, Len(ls)) ELSE <<>>)
    ELSE ls

\* Lines 71-72: del lines[start:end+1] when both were found.
RemoveBlock(ls, s, e) ==
    IF s # NoIndex /\ e # NoIndex
    THEN SubSeq(ls, 1, s - 1) \o SubSeq(ls, e + 1, Len(ls))
    ELSE ls

(***************************************************************************)
(* Lines 74-80: the index of the last line that is #endif after strip(),   *)
(* NoIndex when the loop ends without a break (the else branch raises).    *)
(***************************************************************************)
RECURSIVE FinalEndifFrom(_, _)
FinalEndifFrom(ls, i) ==
    IF i = 0 THEN NoIndex
    ELSE IF strip(ls[i]) = ENDIF THEN i
    ELSE FinalEndifFrom(ls, i - 1)

\* The search, were a file without #endif given its last line as the anchor.
FinalEndifOrLastLine(ls) ==
    IF FinalEndifFrom(ls, Len(ls)) = NoIndex
    THEN Len(ls)
    ELSE FinalEndifFrom(ls, Len(ls))

\* The search, were it to run from the top: the first #endif.
RECURSIVE FirstEndifFrom(_, _)
FirstEndifFrom(ls, i) ==
    IF i > Len(ls) THEN NoIndex
    ELSE IF strip(ls[i]) = ENDIF THEN i
    ELSE FirstEndifFrom(ls, i + 1)

FirstEndif(ls) == FirstEndifFrom(ls, 1)

FinalEndif(ls) == FinalEndifFrom(ls, Len(ls))

\* The insertion, were it one line late: the block after the anchor.
InsertAfter(ls, k, block) ==
    SubSeq(ls, 1, k) \o block \o SubSeq(ls, k + 1, Len(ls))

\* Line 84: lines[:insert_index] + insert_lines + lines[insert_index:].
InsertBefore(ls, k, block) ==
    SubSeq(ls, 1, k - 1) \o block \o SubSeq(ls, k, Len(ls))


(***************************************************************************)
(* subprocess.run(), lines 17-23 and 32-38: what the call can do.  It      *)
(* raises FileNotFoundError (git is absent), TimeoutExpired (no answer in  *)
(* 5 seconds) or another OSError, or it completes with a return code and   *)
(* the text git wrote to its standard output.                              *)
(***************************************************************************)
Raises(e) == [kind |-> e, returncode |-> 0, stdout |-> <<>>]
Completed(rc, out) == [kind |-> "completed", returncode |-> rc, stdout |-> out]
NoResult == [kind |-> "none", returncode |-> 0, stdout |-> <<>>]

RunExceptions ==
    {Raises("FileNotFoundError"), Raises("TimeoutExpired"), Raises("OSError")}

\* git rev-parse --short HEAD
HashQueries ==
    RunExceptions \cup
    { Completed(0, <<"a1b2c3d", NL>>), Completed(128, <<>>),
      Completed(128, <<"HEAD", NL>>) }


\* git rev-parse --abbrev-ref HEAD
BranchQueries ==
    RunExceptions \cup
    { Completed(0, <<"main", NL>>), Completed(0, <<"HEAD", NL>>),
      Completed(0, <<"unknown", NL>>), Completed(128, <<>>),
      Completed(128, <<"HEAD", NL>>) }

Succeeded(q) == q.kind = "completed" /\ q.returncode = 0

\* What a function hands to its caller: a value, or an exception.
Returns(v) == [exception |-> "None", value |-> v]
Propagates(e) == [exception |-> e, value |-> <<>>]

\* get_git_commit_hash, were its except clause to name TimeoutExpired alone:
\* the other exceptions of the call reach main().
get_git_commit_hash_narrow_except(q) ==
    IF q.kind = "completed"
    THEN (IF q.returncode = 0 THEN Returns(strip(q.stdout)) ELSE Returns(DEV))
    ELSE IF q.kind = "TimeoutExpired" THEN Returns(DEV)
    ELSE Propagates(q.kind)

\* Lines 15-28.  The bare except swallows every exception of the call.
get_git_commit_hash(q) ==
    IF q.kind = "completed"
    THEN (IF q.returncode = 0 THEN Returns(strip(q.stdout)) ELSE Returns(DEV))
    ELSE Returns(DEV)

\* get_git_branch, were HEAD returned as it comes.
get_git_branch_raw(q) ==
    IF q.kind = "completed"
    THEN (IF q.returncode = 0 THEN Returns(strip(q.stdout)) ELSE Returns(UNKNOWN))
    ELSE Returns(UNKNOWN)

\* Lines 30-44.
get_git_branch(q) ==
    IF q.kind = "completed"
    THEN (IF q.returncode = 0
          THEN (IF strip(q.stdout) = HEAD
                THEN Returns(DETACHED)
                ELSE Returns(strip(q.stdout)))
          ELSE Returns(UNKNOWN))
    ELSE Returns(UNKNOWN)

\* Line 49: datetime.now().strftime("%Y%m%d_%H%M%S").  The clock's readings,
\* one per build: every build reads the clock later than the build before.
ClockReadings ==
    <<"20240101_120000", "20240101_120001", "20240101_120002">>

now(n) == <<ClockReadings[n]>>

Timestamps == {now(n) : n \in 1..Len(ClockReadings)}

(***************************************************************************)
(* The files a behaviour starts from: up to MaxLines lines, each one of an *)
(* indented begin marker, an end marker, an #endif, and an #endif followed *)
(* by a comment, which is not an anchor; the last line with or without its *)
(* line break.                                                             *)
(***************************************************************************)
SourceLines ==
    { <<SP, SP>> \o BEGIN_MARK, END_MARK, ENDIF,
      <<"#endif", SP, "// PIO_CONFIG_H">> }

LineLists == UNION {[1..n -> SourceLines] : n \in 0..MaxLines}

FileOf(ls, finalBreak) ==
    writelines([i \in 1..Len(ls) |->
        IF i < Len(ls) \/ finalBreak THEN Append(ls[i], NL) ELSE ls[i]])

InitialFiles == {FileOf(ls, b) : ls \in LineLists, b \in BOOLEAN}

(***************************************************************************)
(* Reading the lines of a file.                                            *)
(***************************************************************************)
IsBegin(l) == strip(l) = BEGIN_MARK
IsEnd(l) == strip(l) = END_MARK
IsAnchor(l) == strip(l) = ENDIF

BeginAt(ls) == {i \in 1..Len(ls) : IsBegin(ls[i])}
EndAt(ls) == {i \in 1..Len(ls) : IsEnd(ls[i])}
AnchorAt(ls) == {i \in 1..Len(ls) : IsAnchor(ls[i])}

Min(S) == CHOOSE x \in S : \A y \in S : x <= y
Max(S) == CHOOSE x \in S : \A y \in S : x >= y

\* No marker line at all, or one begin-marker line followed later by the
\* one end-marker line; and an anchor line outside the marker range.
WellFormed(ls) ==
    /\ \/ BeginAt(ls) = {} /\ EndAt(ls) = {}
       \/ /\ Cardinality(BeginAt(ls)) = 1
          /\ Cardinality(EndAt(ls)) = 1
          /\ Min(BeginAt(ls)) < Min(EndAt(ls))
    /\ \E a \in AnchorAt(ls) :
          \A b \in BeginAt(ls), e \in EndAt(ls) : a < b \/ a > e

(***************************************************************************)
(* State.                                                                  *)
(***************************************************************************)
VARIABLES
    file,           \* the text of PIOConfig.h on disk
    pc,             \* where main() is
    exception,      \* the exception main() ended with, "None" if none
    result,         \* what the last subprocess.run() did
    commit_hash,    \* main's locals
    branch,
    timestamp,
    lines,
    start,
    end,
    insert_index,
    runs,           \* the number of the build under way
    fileBefore,     \* the text of PIOConfig.h when this build began
    wellFormed0     \* whether the file the behaviour started from was well formed

vars == <<file, pc, exception, result, commit_hash, branch, timestamp, lines,
          start, end, insert_index, runs, fileBefore, wellFormed0>>

Meta == [commit_hash |-> commit_hash, branch |-> branch, timestamp |-> timestamp]

Init ==
    /\ file \in InitialFiles
    /\ fileBefore = file
    /\ wellFormed0 = WellFormed(readlines(file))
    /\ pc = "start"
    /\ exception = "None"
    /\ result = NoResult
    /\ commit_hash = <<>>
    /\ branch = <<>>
    /\ timestamp = <<>>
    /\ lines = <<>>
    /\ start = NoIndex
    /\ end = NoIndex
    /\ insert_index = NoIndex
    /\ runs = 1

(***************************************************************************)
(* main(), lines 46-87, one action per statement group.                    *)
(***************************************************************************)
\* Line 47.
GetGitCommitHash ==
    /\ pc = "start"
    /\ \E q \in HashQueries :
          /\ result' = q
          /\ IF get_git_commit_hash(q).exception = "None"
             THEN /\ commit_hash' = get_git_commit_hash(q).value
                  /\ pc' = "hash"
                  /\ UNCHANGED exception
             ELSE /\ exception' = get_git_commit_hash(q).exception
                  /\ pc' = "error"
                  /\ UNCHANGED commit_hash
    /\ UNCHANGED <<file, branch, timestamp, lines, start, end, insert_index,
                   runs, fileBefore, wellFormed0>>

\* Line 48.
GetGitBranch ==
    /\ pc = "hash"
    /\ \E q \in BranchQueries :
          /\ result' = q
          /\ IF get_git_branch(q).exception = "None"
             THEN /\ branch' = get_git_branch(q).value
                  /\ pc' = "branch"
                  /\ UNCHANGED exception
             ELSE /\ exception' = get_git_branch(q).exception
                  /\ pc' = "error"
                  /\ UNCHANGED branch
    /\ UNCHANGED <<file, commit_hash, timestamp, lines, start, end,
                   insert_index, runs, fileBefore, wellFormed0>>

\* Lines 49-60.  Both calls have returned and their results are gone; the
\* clock is read and the file's lines are loaded.
ReadLines ==
    /\ pc = "branch"
    /\ timestamp' = now(runs)
    /\ result' = NoResult
    /\ lines' = readlines(file)
    /\ pc' = "read"
    /\ UNCHANGED <<file, exception, commit_hash, branch, start, end,
                   insert_index, runs, fileBefore, wellFormed0>>

\* Lines 62-72.
RemoveExistingBlock ==
    /\ pc = "read"
    /\ LET found == ScanMarkers(lines)
       IN  /\ start' = found.start
           /\ end' = found.end
           /\ lines' = RemoveBlock(lines, found.start, found.end)
    /\ pc' = "removed"
    /\ UNCHANGED <<file, exception, result, commit_hash, branch, timestamp,
                   insert_index, runs, fileBefore, wellFormed0>>

\* Lines 74-80.
FindFinalEndif ==
    /\ pc = "removed"
    /\ insert_index' = FinalEndif(lines)
    /\ IF FinalEndif(lines) = NoIndex
       THEN pc' = "error" /\ exception' = "RuntimeError"
       ELSE pc' = "found" /\ UNCHANGED exception
    /\ UNCHANGED <<file, result, commit_hash, branch, timestamp, lines, start,
                   end, runs, fileBefore, wellFormed0>>

\* Lines 82-87.
WriteBack ==
    /\ pc = "found"
    /\ file' = writelines(InsertBefore(lines, insert_index, insert_lines(Meta)))
    /\ pc' = "done"
    /\ UNCHANGED <<exception, result, commit_hash, branch, timestamp, lines,
                   start, end, insert_index, runs, fileBefore, wellFormed0>>

\* The next build runs the script again, on the file the last one left.
NextBuild ==
    /\ pc \in {"done", "error"}
    /\ runs < MaxRuns
    /\ runs < Len(ClockReadings)
    /\ runs' = runs + 1
    /\ fileBefore' = file
    /\ pc' = "start"
    /\ exception' = "None"
    /\ result' = NoResult
    /\ commit_hash' = <<>>
    /\ branch' = <<>>
    /\ timestamp' = <<>>
    /\ lines' = <<>>
    /\ start' = NoIndex
    /\ end' = NoIndex
    /\ insert_index' = NoIndex
    /\ UNCHANGED <<file, wellFormed0>>

Next ==
    \/ GetGitCommitHash
    \/ GetGitBranch
    \/ ReadLines
    \/ RemoveExistingBlock
    \/ FindFinalEndif
    \/ WriteBack
    \/ NextBuild

Spec == Init /\ [][Next]_vars

(***************************************************************************)
(* main() from the read to the write as one function of the file and the   *)
(* metadata: the script's effect on a file, for the laws that inject twice.*)
(***************************************************************************)
inject(content, m) ==
    LET ls == readlines(content)
        found == ScanMarkers(ls)
        rest == RemoveBlock(ls, found.start, found.end)
        k == FinalEndif(rest)
    IN  IF k = NoIndex
        THEN [ok |-> FALSE, file |-> content]
        ELSE [ok |-> TRUE, file |-> writelines(InsertBefore(rest, k, insert_lines(m)))]

\* The metadata main() can come to hold.
Metas ==
    { [commit_hash |-> get_git_commit_hash(h).value,
       branch |-> get_git_branch(b).value,
       timestamp |-> t] : h \in HashQueries, b \in BranchQueries, t \in Timestamps }

\* The steps of main() and inject agree.
InjectAgrees ==
    /\ pc = "done" => inject(fileBefore, Meta) = [ok |-> TRUE, file |-> file]
    /\ (pc = "error" /\ exception = "RuntimeError") => ~inject(fileBefore, Meta).ok

(***************************************************************************)
(* Vocabulary of the properties, written from the file's text alone.       *)
(***************************************************************************)
\* The lines of PIOConfig.h when this build began, and now.
orig == readlines(fileBefore)
out == readlines(file)

\* The five lines of the block for metadata m, as they stand in the file.
ExpectedDefines(m) ==
    << <<"#define", SP, "FIRMWARE_BUILD_NUMBER", SP, "\"">> \o m.commit_hash \o <<"\"", NL>>,
       <<"#define", SP, "GIT_BRANCH", SP, "\"">> \o m.branch \o <<"\"", NL>>,
       <<"#define", SP, "BUILD_TIMESTAMP_NUM", SP, "\"">> \o m.timestamp \o <<"\"", NL>> >>

ExpectedBlock(m) ==
    << <<"// >>> AUTO-GENERATED BUILD INFO BEGIN", NL>> >>
    \o ExpectedDefines(m)
    \o << <<"// <<< AUTO-GENERATED BUILD INFO END", NL>> >>

Lines(seq) == {seq[i] : i \in 1..Len(seq)}

\* ls without the lines of the range S of indexes.
Without(ls, S) ==
    IF S = {} THEN ls
    ELSE SubSeq(ls, 1, Min(S) - 1) \o SubSeq(ls, Max(S) + 1, Len(ls))

\* The begin-marker lines before the first end-marker line.
BeginsBeforeFirstEnd(ls) ==
    LET E == EndAt(ls)
    IN  IF E = {} THEN {} ELSE {b \in BeginAt(ls) : b < Min(E)}

\* The range the script removes: from the last begin-marker line before the
\* first end-marker line to that end-marker line; empty without such a pair.
PriorBlock(ls) ==
    LET B == BeginsBeforeFirstEnd(ls)
        E == EndAt(ls)
    IN  IF B = {} THEN {} ELSE Max(B) .. Min(E)

\* The range from the first begin-marker line to the first end-marker line
\* at or after it.
FirstPair(ls) ==
    LET b == Min(BeginAt(ls))
        E == {e \in EndAt(ls) : e >= b}
    IN  b .. Min(E)

HasPair(ls) == \E b \in BeginAt(ls), e \in EndAt(ls) : b < e

\* The index of the last anchor line (0 without one), and the lines after it.
LastAnchor(ls) ==
    LET A == AnchorAt(ls)
    IN  IF A = {} THEN 0 ELSE Max(A)

AfterAnchor(ls) == SubSeq(ls, LastAnchor(ls) + 1, Len(ls))

\* One begin-marker line, one end-marker line, and between them exactly the
\* three #define lines of m.
OneBlockOf(ls, m) ==
    LET B == BeginAt(ls)
        E == EndAt(ls)
    IN  /\ Cardinality(B) = 1
        /\ Cardinality(E) = 1
        /\ Min(B) < Min(E)
        /\ SubSeq(ls, Min(B) + 1, Min(E) - 1) = ExpectedDefines(m)

\* main() has removed the prior block (or found none to remove).
AfterRemoval == pc \in {"removed", "found", "done"}

(***************************************************************************)
(* C1.  Idempotence.                                                       *)
(***************************************************************************)
\* Injecting once more with the metadata just injected leaves the file as
\* it is.
InjectedAgainUnchanged == inject(file, Meta) = [ok |-> TRUE, file |-> file]

\* C1 as claimed: for every file on which the injection succeeds, stray or
\* repeated marker lines included, and every metadata M, injecting M twice
\* gives the file that injecting M once gives.
C1_IdempotentOnEveryFile ==
    pc = "done" => InjectedAgainUnchanged

\* After the removal of the prior block no end-marker line stands before the
\* last anchor line.
NoEndBeforeAnchor ==
    LET a == LastAnchor(lines)
    IN  \A e \in EndAt(lines) : e > a

\* C1 as amended: for every file on which the injection succeeds and in
\* which, once the prior block is removed, no end-marker line precedes the
\* last anchor line, injecting M twice gives the file that injecting M once
\* gives, line for line.
C1_Idempotent ==
    (pc = "done" /\ NoEndBeforeAnchor) => InjectedAgainUnchanged

\* An injection into a file with a stray begin marker, which stays.
C1_Witness ==
    /\ pc = "done"
    /\ NoEndBeforeAnchor
    /\ Cardinality(BeginAt(out)) >= 2

(***************************************************************************)
(* C2.  Replacement correctness.                                           *)
(***************************************************************************)
\* C2 as claimed: for every file F and all metadata M1 # M2, F injected with
\* M1 and then with M2 holds one begin-marker line and one end-marker line,
\* the three #define lines of M2 between them, and no #define line of M1.
C2_ReplacesOnEveryFile ==
    pc = "done" =>
        \A m2 \in Metas \ {Meta} :
            LET second == inject(file, m2)
                ls == readlines(second.file)
            IN  /\ second.ok
                /\ OneBlockOf(ls, m2)
                /\ Lines(ls) \cap Lines(ExpectedDefines(Meta)) = {}

\* C2 as amended: for every well-formed file F (no marker line, or one
\* begin-marker line followed later by the one end-marker line, and an
\* anchor line outside them) that holds no #define line of M1 outside its
\* markers, and all metadata M1 # M2, F injected with M1 and then with M2
\* holds one begin-marker line and one end-marker line, the three #define
\* lines of M2 between them, and none of the #define lines of M1 other than
\* those M2 has too.
C2_Replaces ==
    ( /\ pc = "done"
      /\ WellFormed(orig)
      /\ Lines(Without(orig, PriorBlock(orig))) \cap Lines(ExpectedDefines(Meta)) = {} )
    =>
        \A m2 \in Metas \ {Meta} :
            LET second == inject(file, m2)
                ls == readlines(second.file)
            IN  /\ second.ok
                /\ OneBlockOf(ls, m2)
                /\ Lines(ls) \cap (Lines(ExpectedDefines(Meta)) \ Lines(ExpectedDefines(m2))) = {}

\* A well-formed file that came with a block has been injected.
C2_Witness ==
    /\ pc = "done"
    /\ WellFormed(orig)
    /\ PriorBlock(orig) # {}
    /\ Lines(Without(orig, PriorBlock(orig))) \cap Lines(ExpectedDefines(Meta)) = {}

(***************************************************************************)
(* C3.  Anchor preservation.                                               *)
(***************************************************************************)
\* C3 as claimed: for every file on which the injection succeeds, the lines
\* after the last anchor line are the same, in number and in order, in the
\* output as in the input.
C3_AnchorKeptOnEveryFile ==
    pc = "done" =>
        LET read == orig
            written == out
        IN  AfterAnchor(written) = AfterAnchor(read)

\* The removed range, if there is one, ends before the input's last anchor.
BlockBeforeAnchor ==
    LET read == orig
        a == LastAnchor(read)
    IN  \A i \in PriorBlock(read) : i < a

\* C3 as amended: for every file on which the injection succeeds and whose
\* removed range, if any, lies wholly before the file's last anchor line,
\* the lines after the last anchor line are the same, in number and in
\* order, in the output as in the input.
C3_AnchorKept ==
    (pc = "done" /\ BlockBeforeAnchor) =>
        LET read == orig
            written == out
        IN  AfterAnchor(written) = AfterAnchor(read)

\* A block before the anchor was replaced, and lines follow the anchor.
C3_Witness ==
    /\ pc = "done"
    /\ PriorBlock(orig) # {}
    /\ BlockBeforeAnchor
    /\ AfterAnchor(orig) # <<>>
    /\ AfterAnchor(out) = AfterAnchor(orig)

(***************************************************************************)
(* C4.  A missing anchor is fatal and leaves the file untouched.           *)
(***************************************************************************)
\* C4: when the lines left after the removal of the prior block hold no
\* anchor line, main() ends with the error, the write is not reached, and
\* the file is what it was before the build; the write is reached only with
\* an anchor.
C4_MissingAnchorFatal ==
    /\ pc = "error" => (file = fileBefore /\ AnchorAt(lines) = {})
    /\ pc \in {"found", "done"} => AnchorAt(lines) # {}
    /\ pc # "done" => file = fileBefore

\* The only #endif of the file lay inside the removed block.
C4_Witness ==
    /\ pc = "error"
    /\ exception = "RuntimeError"
    /\ AnchorAt(orig) # {}
    /\ PriorBlock(orig) # {}

(***************************************************************************)
(* C5.  Fallback totality of the resolver.                                 *)
(***************************************************************************)
\* C5: whatever the query did, the two functions return and do not raise;
\* get_git_commit_hash returns "dev" and get_git_branch "unknown" when the
\* query did not succeed, and get_git_commit_hash returns the trimmed
\* output when it did.
C5_FallbackTotal ==
    /\ result # NoResult => pc \in {"hash", "branch"}
    /\ pc = "hash" =>
          commit_hash = (IF Succeeded(result) THEN strip(result.stdout) ELSE <<"dev">>)
    /\ (pc = "branch" /\ ~Succeeded(result)) => branch = <<"unknown">>

\* The hash was resolved and the branch query timed out.
C5_Witness ==
    /\ pc = "branch"
    /\ result.kind = "TimeoutExpired"
    /\ commit_hash = <<"a1b2c3d">>
    /\ branch = <<"unknown">>

(***************************************************************************)
(* C6.  Detached-state remap.                                              *)
(***************************************************************************)
\* On success the branch is "detached" for the output HEAD and the trimmed
\* output otherwise.
RemapsHead ==
    (pc = "branch" /\ Succeeded(result)) =>
        branch = (IF strip(result.stdout) = <<"HEAD">>
                  THEN <<"detached">>
                  ELSE strip(result.stdout))

\* C6 as claimed: on success get_git_branch returns "detached" for the
\* output HEAD and the trimmed output otherwise, and it returns "unknown"
\* only when the query did not succeed.
C6_UnknownOnlyOnFailure ==
    /\ RemapsHead
    /\ (pc = "branch" /\ branch = <<"unknown">>) => ~Succeeded(result)

\* C6 as amended: on success get_git_branch returns "detached" for the
\* output HEAD and the trimmed output otherwise; it returns "unknown" only
\* when the query did not succeed or the trimmed output is itself
\* "unknown", so a detached checkout is never reported as "unknown" or as
\* the raw HEAD.
C6_DetachedRemap ==
    /\ RemapsHead
    /\ (pc = "branch" /\ branch = <<"unknown">>) =>
          (~Succeeded(result) \/ strip(result.stdout) = <<"unknown">>)
    /\ (pc = "branch" /\ Succeeded(result) /\ strip(result.stdout) = <<"HEAD">>) =>
          branch \notin {<<"unknown">>, <<"HEAD">>}

\* The query answered HEAD and the branch is "detached".
C6_Witness ==
    /\ pc = "branch"
    /\ result = Completed(0, <<"HEAD", NL>>)
    /\ branch = <<"detached">>

(***************************************************************************)
(* C7.  The block chosen for removal.                                      *)
(***************************************************************************)
\* C7 as claimed: in every file where some begin-marker line is followed
\* later by an end-marker line, the removed range runs from the first
\* begin-marker line to the first end-marker line at or after it.
C7_FirstBeginToFirstEnd ==
    AfterRemoval =>
        LET read == orig
        IN  HasPair(read) => lines = Without(read, FirstPair(read))

\* C7 as amended: in every file the removed range runs from the last
\* begin-marker line that precedes the file's first end-marker line to that
\* end-marker line, inclusive; when the file has no end-marker line, or no
\* begin-marker line before its first end-marker line, nothing is removed.
C7_LastBeginToFirstEnd ==
    AfterRemoval =>
        LET read == orig
        IN  lines = Without(read, PriorBlock(read))

\* Several begin-marker lines stood before the first end-marker line.
C7_Witness ==
    /\ pc = "removed"
    /\ Cardinality(BeginsBeforeFirstEnd(orig)) >= 2

(***************************************************************************)
(* C8.  One marker without the other.                                      *)
(***************************************************************************)
OnlyOneMarkerKind ==
    LET read == orig
    IN  (BeginAt(read) = {}) # (EndAt(read) = {})

\* C8: when the file holds begin-marker lines and no end-marker line, or
\* end-marker lines and no begin-marker line, and holds an anchor line, the
\* injection removes nothing: the output is the input with the five lines
\* of the new block inserted right before the last anchor line.
C8_SingleMarkerKept ==
    (pc \in {"done", "error"} /\ OnlyOneMarkerKind /\ AnchorAt(orig) # {}) =>
        /\ pc = "done"
        /\ LET read == orig
               a == LastAnchor(read)
           IN  out = SubSeq(read, 1, a - 1) \o ExpectedBlock(Meta) \o SubSeq(read, a, Len(read))

\* A file with end-marker lines and no begin-marker line was injected.
C8_Witness ==
    /\ pc = "done"
    /\ BeginAt(orig) = {}
    /\ EndAt(orig) # {}

(***************************************************************************)
(* C9.  Where the block goes.                                              *)
(***************************************************************************)
\* C9: after every successful injection the last anchor line of the output
\* is preceded by the five lines of the block, in order, and that anchor is
\* the last anchor line of the lines left after the removal of the prior
\* block: the output is those lines with the block put right before it.
C9_BlockBeforeLastAnchor ==
    pc = "done" =>
        LET written == out
            block == ExpectedBlock(Meta)
            a == LastAnchor(written)
            k == LastAnchor(lines)
        IN  /\ a > Len(block)
            /\ SubSeq(written, a - Len(block), a - 1) = block
            /\ a = k + Len(block)
            /\ written = SubSeq(lines, 1, k - 1) \o block \o SubSeq(lines, k, Len(lines))

\* The lines left after the removal held more than one anchor line.
C9_Witness ==
    /\ pc = "done"
    /\ Cardinality(AnchorAt(lines)) >= 2

(***************************************************************************)
(* C10.  Repeated builds on a well-formed file.                            *)
(***************************************************************************)
\* C10: when the first file is well formed, every build succeeds, the file
\* it leaves holds one begin-marker line and one end-marker line with the
\* three #define lines of that build's metadata between them, and from the
\* second build on the file has as many lines after the build as before.
C10_OneBlockNoGrowth ==
    wellFormed0 =>
        /\ pc # "error"
        /\ LET written == out
           IN  /\ pc = "done" => OneBlockOf(written, Meta)
               /\ (pc = "done" /\ runs >= 2) => Len(written) = Len(orig)
               /\ runs >= 2 =>
                     (Cardinality(BeginAt(written)) = 1 /\ Cardinality(EndAt(written)) = 1)

\* A later build on a file that started well formed has ended.
C10_Witness ==
    /\ wellFormed0
    /\ pc = "done"
    /\ runs >= 2

=============================================================================
